---- MODULE Spec2Model ----
(***************************************************************************)
(* msub_generic.py: compiles a list of shell commands into a SLURM array   *)
(* job script, writes it without clobbering existing files and launches    *)
(* (or previews) the submission.                                           *)
(*                                                                         *)
(* A Python str is a sequence of one-character strings, so that strip,     *)
(* startswith, split, join and the integer conversions are computed as the *)
(* program computes them.  A file is a sequence of lines.                  *)
(***************************************************************************)
EXTENDS Integers, Sequences, FiniteSets, TLC

VARIABLES
    args,          \* the parsed command line (parse_args)
    env,           \* what the run finds around it: sbatch_wait.sh, the job's variables
    input_file,    \* the lines of the input source
    pos,           \* how many lines of input_file the for loop has consumed
    command_list,
    job_name,
    fs,            \* the files of the current directory: name -> lines
    os_arg,        \* open_sesame: the filename parameter
    os_filename,   \* open_sesame: _filename
    os_counter,    \* open_sesame: _counter
    ofh_name,      \* ofh.name once the file is open
    cmd_i,         \* index of the enumerate loop over command_list
    job_flags,
    sbatch,
    stdout,        \* the lines printed on standard output
    dirs,          \* the directories os.makedirs created
    execd,         \* the argv handed to os.execlp, if any
    status,        \* how the run ended, "running" until then
    task,          \* one execution of the compiled script by the scheduler
    pc

vars == <<args, env, input_file, pos, command_list, job_name, fs, os_arg,
          os_filename, os_counter, ofh_name, cmd_i, job_flags, sbatch, stdout,
          dirs, execd, status, task, pc>>

-----------------------------------------------------------------------------
(* Bounds of the model *)

\* longest input source, in lines
MaxLines == 3
\* highest disambiguation counter a pre-existing script file may carry
MaxCounter == 3

-----------------------------------------------------------------------------
(* Python values *)

\* None, for an optional str
None == <<"None">>
\* an optional int is <<>> (None) or <<n>>
NoInt == <<>>

\* truth value of an optional str: None and '' are false
TruthyStr(s) == s # None /\ s # <<>>
\* truth value of an optional int: None and 0 are false
TruthyInt(x) == x # NoInt /\ x[1] # 0

IsSpace(c) == c \in {" ", "\t", "\n"}
IsDigit(c) == c \in {"0", "1", "2", "3", "4", "5", "6", "7", "8", "9"}

\* str.strip(): what lies between the first and the last non-blank character
strip(s) ==
    LET inked == {k \in 1..Len(s) : ~IsSpace(s[k])}
    IN IF inked = {} THEN <<>>
       ELSE SubSeq(s, CHOOSE k \in inked : \A j \in inked : k <= j,
                      CHOOSE k \in inked : \A j \in inked : k >= j)

\* str.startswith(p), str.endswith(p)
startswith(s, p) == Len(s) >= Len(p) /\ SubSeq(s, 1, Len(p)) = p
endswith(s, p) == Len(s) >= Len(p) /\ SubSeq(s, Len(s) - Len(p) + 1, Len(s)) = p

\* c in s
contains(s, c) == \E k \in 1..Len(s) : s[k] = c

\* the i-th smallest element of a set of numbers
Nth(S, i) == CHOOSE k \in S : Cardinality({j \in S : j < k}) = i - 1

\* str.split(c): the pieces between the occurrences of c, empty ones kept
split(s, c) ==
    LET seps == {k \in 1..Len(s) : s[k] = c}
        n == Cardinality(seps)
    IN [i \in 1..(n + 1) |->
           SubSeq(s, IF i = 1 THEN 1 ELSE Nth(seps, i - 1) + 1,
                     IF i = n + 1 THEN Len(s) ELSE Nth(seps, i) - 1)]

\* str.split(): the pieces between runs of whitespace, empty ones dropped
splitws(s) ==
    LET starts == {k \in 1..Len(s) : ~IsSpace(s[k]) /\ (k = 1 \/ IsSpace(s[k - 1]))}
        ends == {k \in 1..Len(s) : ~IsSpace(s[k]) /\ (k = Len(s) \/ IsSpace(s[k + 1]))}
    IN [i \in 1..Cardinality(starts) |-> SubSeq(s, Nth(starts, i), Nth(ends, i))]

\* sep.join(parts)
RECURSIVE join(_, _)
join(sep, parts) ==
    IF parts = <<>> THEN <<>>
    ELSE IF Len(parts) = 1 THEN parts[1]
    ELSE parts[1] \o sep \o join(sep, Tail(parts))

\* os.path.basename(p): what follows the last '/'
basename(p) == LET parts == split(p, "/") IN parts[Len(parts)]

DigitChars == <<"0", "1", "2", "3", "4", "5", "6", "7", "8", "9">>

\* str(n) and '%i' % n
RECURSIVE NatToStr(_)
NatToStr(n) ==
    IF n < 10 THEN <<DigitChars[n + 1]>>
    ELSE NatToStr(n \div 10) \o <<DigitChars[(n % 10) + 1]>>
IntToStr(n) == IF n < 0 THEN <<"-">> \o NatToStr(0 - n) ELSE NatToStr(n)

DigitVal(c) == CHOOSE d \in 0..9 : DigitChars[d + 1] = c

RECURSIVE DigitsToNat(_, _)
DigitsToNat(s, acc) ==
    IF s = <<>> THEN acc ELSE DigitsToNat(Tail(s), 10 * acc + DigitVal(Head(s)))

\* int(s): surrounding whitespace and one sign are accepted, then digits only.
\* IsIntStr(s) is whether int(s) returns; otherwise it raises ValueError.
IntBody(s) ==
    LET t == strip(s)
    IN IF t # <<>> /\ Head(t) \in {"+", "-"} THEN Tail(t) ELSE t
IsIntStr(s) == IntBody(s) # <<>> /\ \A k \in 1..Len(IntBody(s)) : IsDigit(IntBody(s)[k])
StrToInt(s) ==
    LET t == strip(s)
        v == DigitsToNat(IntBody(s), 0)
    IN IF t # <<>> /\ Head(t) = "-" THEN 0 - v ELSE v

\* format(s, '<w'): left-justified in a field of width w, never truncated
ljust(s, w) == s \o [k \in 1..(w - Len(s)) |-> " "]

\* print(text, file=f): the lines text adds to the file
Lines(text) == split(text, "\n")

-----------------------------------------------------------------------------
(* main: where the commands come from, and the job name *)

\* _i = args.iinput or args.input
InputArg(a) == IF TruthyStr(a.iinput) THEN a.iinput ELSE a.input

\* (_i or '-') == '-'
FromStdin(a) == (IF TruthyStr(InputArg(a)) THEN InputArg(a) ELSE <<"-">>) = <<"-">>

\* job_name as main derives it, corner cases included
JobName(a) ==
    LET named == IF FromStdin(a)
                 THEN (IF TruthyStr(a.name) THEN a.name ELSE <<"m","s","u","b","_","s","t","d","i","n">>)
                 ELSE LET n == IF TruthyStr(a.name) THEN a.name
                                ELSE basename(InputArg(a))
                      IN IF endswith(n, <<".","s","h">>) THEN SubSeq(n, 1, Len(n) - 3) ELSE n
    IN IF named = <<>> \/ startswith(named, <<".">>) THEN <<"m","s","u","b">> \o named ELSE named

-----------------------------------------------------------------------------
(* main: reading the commands *)

\* faulty variant: the SGE prefix is not looked for
IsDirectiveOnlySlurm(l) == startswith(l, <<"#","S","B","A","T","C","H"," ">>)
\* a stripped line that looks like a SLURM or SGE directive
IsDirective(l) == startswith(l, <<"#","S","B","A","T","C","H"," ">>) \/ startswith(l, <<"#","$"," ","-">>)

\* faulty variant: the line is compared as read, newline included
IsSentinelUnstripped(l) == l = <<".","\n">>
\* the end-of-input line
IsSentinel(l) == l = <<".">>

\* a stripped line the loop skips
IsSkipped(l) == l = <<>> \/ startswith(l, <<"#">>)

-----------------------------------------------------------------------------
(* open_sesame *)

\* faulty variant: the counter always goes at the end
NextFilenameAppend(filename, counter) == filename \o <<".">> \o IntToStr(counter)
\* the next _filename after a FileExistsError, with _counter already incremented
NextFilename(filename, counter) ==
    IF contains(basename(filename), ".")
    THEN LET parts == split(filename, ".")
         IN join(<<".">>, SubSeq(parts, 1, Len(parts) - 1)
                          \o <<IntToStr(counter)>>
                          \o SubSeq(parts, Len(parts), Len(parts)))
    ELSE filename \o <<".">> \o IntToStr(counter)

-----------------------------------------------------------------------------
(* write_header *)

\* whether int(args.environ.split()[-1]) is evaluated, and whether it raises
EnvironUsed(a) == a.cpu = 1 /\ TruthyStr(a.environ)
EnvironRaises(a) ==
    EnvironUsed(a) /\
        LET w == splitws(a.environ) IN w = <<>> \/ ~IsIntStr(w[Len(w)])

cpu_count(a) ==
    IF EnvironUsed(a)
    THEN LET w == splitws(a.environ) IN StrToInt(w[Len(w)])
    ELSE a.cpu

mem_limit(a) == IF TruthyInt(a.mem) THEN a.mem[1] ELSE 6144 * a.cpu

\* faulty variant: the job name is used, not the name of the file opened
jobnameFromJobName(name) == job_name
\* os.path.basename(ofh.name)[:-len(".sbatch")]
jobname(name) ==
    LET b == basename(name) IN SubSeq(b, 1, Len(b) - Len(<<".","s","b","a","t","c","h">>))

\* faulty variant: the range ends at the task count
array_paramCount(task_count, max_running_task) ==
    <<"0","-">> \o IntToStr(task_count)
        \o (IF TruthyInt(max_running_task)
            THEN <<"%">> \o IntToStr(max_running_task[1]) ELSE <<>>)
\* array_param, from task_count and args.max_running_task
array_param(task_count, max_running_task) ==
    <<"0","-">> \o IntToStr(task_count - 1)
        \o (IF TruthyInt(max_running_task)
            THEN <<"%">> \o IntToStr(max_running_task[1]) ELSE <<>>)

\* munge_hold_arg
HoldRaises(hold_arg) ==
    ~contains(hold_arg, ":") /\
        \E k \in 1..Len(split(hold_arg, ",")) : ~IsIntStr(split(hold_arg, ",")[k])
munge_hold_arg(hold_arg) ==
    IF contains(hold_arg, ":") THEN hold_arg
    ELSE LET js == split(hold_arg, ",")
         IN <<"a","f","t","e","r","o","k",":">> \o join(<<":">>, [k \in 1..Len(js) |-> IntToStr(StrToInt(js[k]))])

\* P(*x): each template formatted and printed
RECURSIVE P(_)
P(texts) == IF texts = <<>> THEN <<>> ELSE Lines(Head(texts)) \o P(Tail(texts))

\* the lines printed before the --hold argument is looked at
HeaderTop(a, name, task_count) ==
    P(<< <<"#","!","/","b","i","n","/","b","a","s","h">>, <<"#">>,
         <<"#","S","B","A","T","C","H"," ","-","a"," ">> \o ljust(array_param(task_count, a.max_running_task), 17)
             \o <<" "," "," ","#"," ","a","r","r","a","y"," ","o","f"," ","t","a","s","k","s"," ","a","n","d"," ","m","a","x"," ","n","u","m","b","e","r"," ","t","o"," ","r","u","n"," ","a","t"," ","o","n","c","e">>,
         <<"#","S","B","A","T","C","H"," ","-","n"," ","1"," "," "," "," "," "," "," "," "," "," "," "," "," "," "," "," "," "," "," ","#"," ","1"," ","t","a","s","k"," ","p","e","r"," ","n","o","d","e"," ","(","f","i","x","e","d"," ","f","o","r"," ","a","l","l"," ","m","s","u","b"," ","j","o","b","s",")">>,
         <<"#","S","B","A","T","C","H"," ","-","c"," ">> \o ljust(IntToStr(cpu_count(a)), 15)
             \o <<" "," "," "," "," ","#"," ","n","u","m","b","e","r"," ","o","f"," ","c","o","r","e","s"," ","p","e","r"," ","t","a","s","k">>,
         <<"#","S","B","A","T","C","H"," ","-","-","m","e","m"," ">> \o ljust(IntToStr(mem_limit(a)), 15)
             \o <<" "," ","#"," ","m","e","m","o","r","y"," ","p","o","o","l"," ","p","e","r"," ","t","a","s","k"," ","(","n","o","t"," ","p","e","r"," ","c","o","r","e",")">>,
         <<"#","S","B","A","T","C","H"," ","-","o"," ">> \o a.stdoutdir \o <<"/">> \o jobname(name)
             \o <<".","%","A",".","%","a",".","o","u","t"," "," "," "," "," ","#"," ","S","T","D","O","U","T">>,
         <<"#","S","B","A","T","C","H"," ","-","e"," ">> \o a.stdoutdir \o <<"/">> \o jobname(name)
             \o <<".","%","A",".","%","a",".","e","r","r"," "," "," "," "," ","#"," ","S","T","D","E","R","R">> >>)

\* the lines printed after it
HeaderRest(a) ==
    (IF TruthyStr(a.hold)
     THEN P(<< <<"#","S","B","A","T","C","H"," ","-","d"," ">> \o munge_hold_arg(a.hold)
                   \o <<" "," ","#"," ","h","o","l","d"," ","o","f","f"," ","w","a","i","t","i","n","g"," ","f","o","r"," ","j","o","b","s">> >>)
     ELSE <<>>)
    \o (IF a.noemail
        THEN P(<< <<"#","S","B","A","T","C","H"," ","-","-","m","a","i","l","-","t","y","p","e","=","N","O","N","E"," "," "," "," "," "," "," ","#"," ","n","o"," ","e","m","a","i","l">> >>)
        ELSE P(<< <<"#","S","B","A","T","C","H"," ","-","-","m","a","i","l","-","t","y","p","e","=","E","N","D",",","F","A","I","L"," "," "," ","#"," ","n","o","t","i","f","i","c","a","t","i","o","n","s"," ","f","o","r"," ","j","o","b"," ","d","o","n","e"," ","&"," ","f","a","i","l">> >>))
    \o P(<< <<>>, <<"s","e","t"," ","-","e","u","o"," ","p","i","p","e","f","a","i","l">>, <<"I","F","S","=","$","'","\\","n","\\","t","'">>, <<>> >>)
    \o (IF TruthyStr(a.begin) THEN P(<< a.begin, <<>> >>) ELSE <<>>)
    \o P(<< <<"T","A","S","K","=","$","{","T","A","S","K",":","-","u","n","s","e","t","}">> >>)
    \o P(<< <<"c","a","s","e"," ","$","{","S","L","U","R","M","_","A","R","R","A","Y","_","T","A","S","K","_","I","D",":","-","$","T","A","S","K","}"," ","i","n">> >>)

-----------------------------------------------------------------------------
(* write_command, write_footer *)

\* faulty variant: the branches are numbered from 1
write_commandFromOne(cmd, task_number) ==
    Lines(IntToStr(task_number + 1) \o <<")"," ">> \o cmd \o <<"\n",";",";">>)
\* the lines write_command prints
write_command(cmd, task_number) ==
    Lines(IntToStr(task_number) \o <<")"," ">> \o cmd \o <<"\n",";",";">>)

write_footer(a) ==
    Lines(<<"*",")"," ","e","c","h","o"," ","\"","U","n","e","x","p","e","c","t","e","d"," ","S","L","U","R","M","_","A","R","R","A","Y","_","T","A","S","K","_","I","D","=","$","{","S","L","U","R","M","_","A","R","R","A","Y","_","T","A","S","K","_","I","D",":","-","$","T","A","S","K","}","\"">>)
    \o Lines(<<"e","s","a","c">>)
    \o Lines(<<>>)
    \o (IF TruthyStr(a.final) THEN Lines(a.final) ELSE <<>>)

-----------------------------------------------------------------------------
(* main: the submission command; find_sbatch_wait *)

JobFlags(a) ==
    << <<"-","p">>, a.queue, <<"-","-","n","i","c","e","=">> \o IntToStr(a.priority) >>
    \o (IF a.sync THEN << <<"-","-","w","a","i","t">> >> ELSE <<>>)

\* faulty variant: the real location is tried before the invocation path
find_sbatch_waitRealFirst(e) ==
    IF e.on_path THEN <<"s","b","a","t","c","h","_","w","a","i","t",".","s","h">>
    ELSE IF e.in_real_dir THEN e.real_dir \o <<"/","s","b","a","t","c","h","_","w","a","i","t",".","s","h">>
    ELSE IF e.in_argv0_dir THEN e.argv0_dir \o <<"/","s","b","a","t","c","h","_","w","a","i","t",".","s","h">>
    ELSE None
\* find_sbatch_wait: the path returned, None when FileNotFoundError is raised
find_sbatch_wait(e) ==
    IF e.on_path THEN <<"s","b","a","t","c","h","_","w","a","i","t",".","s","h">>
    ELSE IF e.in_argv0_dir THEN e.argv0_dir \o <<"/","s","b","a","t","c","h","_","w","a","i","t",".","s","h">>
    ELSE IF e.in_real_dir THEN e.real_dir \o <<"/","s","b","a","t","c","h","_","w","a","i","t",".","s","h">>
    ELSE None

\* the line --nosubmit prints
PreviewLine(a, sb, flags, script_file) ==
    join(<<" ">>, << <<"m","k","d","i","r"," ","-","p">>, a.stdoutdir, <<";">>, sb >> \o flags \o <<script_file>>)

-----------------------------------------------------------------------------
(* The compiled script, as bash runs it for one task *)

\* ${SLURM_ARRAY_TASK_ID:-$TASK} after TASK=${TASK:-unset}
Selector(e) ==
    IF TruthyStr(e.SLURM_ARRAY_TASK_ID) THEN e.SLURM_ARRAY_TASK_ID
    ELSE IF TruthyStr(e.TASK) THEN e.TASK
    ELSE <<"u","n","s","e","t">>

\* index of the first line of the script equal to l, 0 when there is none
FirstLine(script, l) ==
    IF \E k \in 1..Len(script) : script[k] = l
    THEN CHOOSE k \in 1..Len(script) :
             script[k] = l /\ \A j \in 1..(k - 1) : script[j] # l
    ELSE 0

\* the branches between 'case ... in' and 'esac': the lines that are not ';;'
Branches(script) ==
    LET from == FirstLine(script, <<"c","a","s","e"," ","$","{","S","L","U","R","M","_","A","R","R","A","Y","_","T","A","S","K","_","I","D",":","-","$","T","A","S","K","}"," ","i","n">>)
        to == FirstLine(script, <<"e","s","a","c">>)
    IN SelectSeq(SubSeq(script, from + 1, to - 1), LAMBDA l : l # <<";",";">>)

\* a branch 'pattern) body'
BranchPattern(b) == split(b, ")")[1]
BranchBody(b) == SubSeq(b, Len(BranchPattern(b)) + 3, Len(b))

\* the first branch whose pattern matches the selector, 0 when none does
Matching(script, sel) ==
    LET bs == Branches(script)
        hit(k) == BranchPattern(bs[k]) = sel \/ BranchPattern(bs[k]) = <<"*">>
    IN IF \E k \in 1..Len(bs) : hit(k)
       THEN CHOOSE k \in 1..Len(bs) : hit(k) /\ \A j \in 1..(k - 1) : ~hit(j)
       ELSE 0

\* what follows 'esac': the --final commands, blank lines dropped
FinalBlock(script) ==
    SelectSeq(SubSeq(script, FirstLine(script, <<"e","s","a","c">>) + 1, Len(script)),
              LAMBDA l : l # <<>>)

-----------------------------------------------------------------------------
(* The runs explored: one family of inputs per part of the program *)

\* all sequences over S of length at most n
SeqsUpTo(S, n) == UNION {[1..k -> S] : k \in 0..n}

\* parse_args with no argument given
DefaultArgs ==
    [begin |-> None, cpu |-> 1, mem |-> NoInt, environ |-> None, final |-> None,
     hold |-> None, nosubmit |-> FALSE, max_running_task |-> NoInt,
     iinput |-> None, input |-> None, name |-> None, noemail |-> FALSE,
     sync |-> FALSE, hard_sync |-> FALSE, priority |-> 50,
     queue |-> <<"g","l","o","b","a","l">>, stdoutdir |-> <<"s","l","u","r","m","_","o","u","t","p","u","t">>]

\* msub invoked through a symlink /home/u/bin/msub -> /opt/slurm_tools/msub_generic.py,
\* no sbatch_wait.sh anywhere, the job's variables not set
DefaultEnv ==
    [on_path |-> FALSE, in_argv0_dir |-> FALSE, in_real_dir |-> FALSE,
     argv0_dir |-> <<"/","h","o","m","e","/","u","/","b","i","n">>, real_dir |-> <<"/","o","p","t","/","s","l","u","r","m","_","t","o","o","l","s">>,
     SLURM_ARRAY_TASK_ID |-> None, TASK |-> None]

RawLines ==
    { <<"e","c","h","o"," ","a","\n">>, <<" "," ","l","s","\t","\n">>, <<"\n">>, <<"#"," ","c","\n">>, <<" ","."," ","\n">>,
      <<"#","S","B","A","T","C","H"," ","-","n"," ","1","\n">>, <<" "," ","#","$"," ","-","c","w","d","\n">>, <<"#","S","B","A","T","C","H","\n">> }

\* inputs that are commands only, one to MaxLines of them
CommandInputs ==
    { [k \in 1..n |-> IF k % 2 = 1 THEN <<"e","c","h","o"," ","a","\n">> ELSE <<" "," ","l","s","\t","\n">>] : n \in 1..MaxLines }

\* content of a file that exists before the run
OldContent == << <<"o","l","d">> >>

\* name.sbatch and name.<k>.sbatch for k up to MaxCounter
ScriptNames(name) ==
    { name \o <<".","s","b","a","t","c","h">> }
    \cup { name \o <<".">> \o IntToStr(k) \o <<".","s","b","a","t","c","h">> : k \in 1..MaxCounter }

NoFiles == [n \in {} |-> OldContent]

Scenario(a, e, i, f) == [args |-> a, env |-> e, input_file |-> i, fs |-> f]

IngestScenarios ==
    { Scenario(DefaultArgs, DefaultEnv, i, NoFiles) : i \in SeqsUpTo(RawLines, MaxLines) }

NameScenarios ==
    { Scenario([DefaultArgs EXCEPT !.iinput = ii, !.input = ip, !.name = nm],
               DefaultEnv, << <<"e","c","h","o"," ","a","\n">> >>, NoFiles) :
        ii \in {None, <<"-">>, <<"r","u","n","/","c","m","d","s",".","s","h">>},
        ip \in {None, <<"j","o","b","s",".","t","x","t">>, <<".","s","h">>},
        nm \in {None, <<>>, <<".","x">>, <<"j","o","b",".","s","h">>} }

WriterScenarios ==
    UNION { { Scenario([DefaultArgs EXCEPT !.name = nb[1], !.nosubmit = ns], DefaultEnv,
                       << <<"e","c","h","o"," ","a","\n">> >>, [n \in S |-> OldContent]) :
                ns \in BOOLEAN, S \in SUBSET ScriptNames(nb[2]) } :
            nb \in { <<None, <<"m","s","u","b","_","s","t","d","i","n">>>>, << <<"j","o","b">>, <<"j","o","b">> >>,
                     << <<"a",".","b">>, <<"a",".","b">> >> } }

ResourceScenarios ==
    { Scenario([DefaultArgs EXCEPT !.cpu = c, !.environ = en, !.mem = m,
                                   !.max_running_task = mrt],
               DefaultEnv, i, NoFiles) :
        c \in {1, 2, 4},
        en \in {None, <<"s","i","n","g","l","e"," ","4">>, <<"s","m","p">>},
        m \in {NoInt, <<0>>, <<1000>>},
        mrt \in {NoInt, <<0>>, <<2>>, <<12>>},
        i \in CommandInputs }

HeaderScenarios ==
    { Scenario([DefaultArgs EXCEPT !.hold = h, !.noemail = ne, !.begin = b, !.final = f],
               DefaultEnv, << <<"e","c","h","o"," ","a","\n">> >>, NoFiles) :
        h \in {None, <<"1","2",",","3","4">>, <<"a","f","t","e","r","c","o","r","r",":","9","9">>, <<"1","2",",","x">>, <<" ","0","0","7">>},
        ne \in BOOLEAN,
        b \in {None, <<"m","o","d","u","l","e"," ","l","o","a","d"," ","x">>},
        f \in {None, <<"e","c","h","o"," ","d","o","n","e">>} }

LaunchScenarios ==
    { Scenario([DefaultArgs EXCEPT !.nosubmit = ns, !.sync = sy, !.hard_sync = hs,
                                   !.priority = pr, !.queue = q[1], !.stdoutdir = q[2]],
               [DefaultEnv EXCEPT !.on_path = op, !.in_argv0_dir = ia, !.in_real_dir = ir],
               << <<"e","c","h","o"," ","a","\n">> >>, NoFiles) :
        ns \in BOOLEAN, sy \in BOOLEAN, hs \in BOOLEAN,
        pr \in {50, 0, -5},
        q \in { << <<"g","l","o","b","a","l">>, <<"s","l","u","r","m","_","o","u","t","p","u","t">> >>, << <<"q","c">>, <<"l","o","g","s","/","o","u","t">> >> },
        op \in BOOLEAN, ia \in BOOLEAN, ir \in BOOLEAN }

TaskScenarios ==
    { Scenario([DefaultArgs EXCEPT !.nosubmit = ns, !.final = f],
               [DefaultEnv EXCEPT !.SLURM_ARRAY_TASK_ID = id, !.TASK = t],
               i, NoFiles) :
        ns \in BOOLEAN,
        f \in {None, <<"e","c","h","o"," ","d","o","n","e">>, <<"f","a","l","s","e">>},
        id \in {None, <<"0">>, <<"1">>, <<"3">>, <<"0","0">>},
        t \in {None, <<"2">>, <<"x">>},
        i \in CommandInputs }

Scenarios ==
    IngestScenarios \cup NameScenarios \cup WriterScenarios \cup ResourceScenarios
        \cup HeaderScenarios \cup LaunchScenarios \cup TaskScenarios

-----------------------------------------------------------------------------
(* The state after parse_args *)

Init ==
    /\ \E s \in Scenarios :
        /\ args = s.args
        /\ env = s.env
        /\ input_file = s.input_file
        /\ fs = s.fs
    /\ pos = 0
    /\ command_list = <<>>
    /\ job_name = None
    /\ os_arg = None
    /\ os_filename = None
    /\ os_counter = 0
    /\ ofh_name = None
    /\ cmd_i = 0
    /\ job_flags = <<>>
    /\ sbatch = None
    /\ stdout = <<>>
    /\ dirs = {}
    /\ execd = <<>>
    /\ status = "running"
    /\ task = <<>>
    /\ pc = "start"

\* the run ends with the given status
Ends(how) == status' = how /\ pc' = "done"

-----------------------------------------------------------------------------
(* main, lines 51-70: the input source and the job name *)

StartAmbiguous ==
    /\ pc = "start"
    /\ TruthyStr(args.iinput) /\ TruthyStr(args.input)
    /\ Ends("exit1")
    /\ UNCHANGED <<args, env, input_file, pos, command_list, job_name, fs, os_arg,
                   os_filename, os_counter, ofh_name, cmd_i, job_flags, sbatch,
                   stdout, dirs, execd, task>>

\* open(_i) of a file that cannot be opened
StartOpenFails ==
    /\ pc = "start"
    /\ ~(TruthyStr(args.iinput) /\ TruthyStr(args.input))
    /\ ~FromStdin(args)
    /\ Ends("OSError")
    /\ UNCHANGED <<args, env, input_file, pos, command_list, job_name, fs, os_arg,
                   os_filename, os_counter, ofh_name, cmd_i, job_flags, sbatch,
                   stdout, dirs, execd, task>>

StartOk ==
    /\ pc = "start"
    /\ ~(TruthyStr(args.iinput) /\ TruthyStr(args.input))
    /\ job_name' = JobName(args)
    /\ pc' = "read"
    /\ UNCHANGED <<args, env, input_file, pos, command_list, fs, os_arg,
                   os_filename, os_counter, ofh_name, cmd_i, job_flags, sbatch,
                   stdout, dirs, execd, status, task>>

Start == StartAmbiguous \/ StartOpenFails \/ StartOk

-----------------------------------------------------------------------------
(* main, lines 79-96: the commands *)

\* one iteration of the for loop: the line is stripped, then classified
ReadLine ==
    /\ pc = "read"
    /\ pos < Len(input_file)
    /\ LET l == strip(input_file[pos + 1])
       IN /\ pos' = pos + 1
          /\ IF IsDirective(l)
             THEN Ends("exit1") /\ UNCHANGED command_list
             ELSE IF IsSentinel(l)
             THEN pc' = "check_empty" /\ UNCHANGED <<command_list, status>>
             ELSE IF IsSkipped(l)
             THEN UNCHANGED <<command_list, status, pc>>
             ELSE command_list' = Append(command_list, l) /\ UNCHANGED <<status, pc>>
    /\ UNCHANGED <<args, env, input_file, job_name, fs, os_arg, os_filename,
                   os_counter, ofh_name, cmd_i, job_flags, sbatch, stdout, dirs,
                   execd, task>>

\* the input source is exhausted
EndOfInput ==
    /\ pc = "read"
    /\ pos = Len(input_file)
    /\ pc' = "check_empty"
    /\ UNCHANGED <<args, env, input_file, pos, command_list, job_name, fs, os_arg,
                   os_filename, os_counter, ofh_name, cmd_i, job_flags, sbatch,
                   stdout, dirs, execd, status, task>>

\* KeyboardInterrupt while reading: exit("..Aborted")
Interrupt ==
    /\ pc = "read"
    /\ Ends("interrupted")
    /\ UNCHANGED <<args, env, input_file, pos, command_list, job_name, fs, os_arg,
                   os_filename, os_counter, ofh_name, cmd_i, job_flags, sbatch,
                   stdout, dirs, execd, task>>

CheckEmpty ==
    /\ pc = "check_empty"
    /\ IF command_list = <<>>
       THEN Ends("exit1")
       ELSE pc' = "call_open" /\ UNCHANGED status
    /\ UNCHANGED <<args, env, input_file, pos, command_list, job_name, fs, os_arg,
                   os_filename, os_counter, ofh_name, cmd_i, job_flags, sbatch,
                   stdout, dirs, execd, task>>

-----------------------------------------------------------------------------
(* open_sesame.__init__ *)

\* main, line 98, and lines 251-252
OpenSesameInit ==
    /\ pc = "call_open"
    /\ os_arg' = job_name \o <<".","s","b","a","t","c","h">>
    /\ os_filename' = job_name \o <<".","s","b","a","t","c","h">>
    /\ os_counter' = 0
    /\ pc' = "open"
    /\ UNCHANGED <<args, env, input_file, pos, command_list, job_name, fs,
                   ofh_name, cmd_i, job_flags, sbatch, stdout, dirs, execd,
                   status, task>>

\* open(_filename, 'x') succeeds: the file did not exist and is created empty
OpenCreates ==
    /\ pc = "open"
    /\ os_filename \notin DOMAIN fs
    /\ fs' = fs @@ (os_filename :> <<>>)
    /\ ofh_name' = os_filename
    /\ pc' = "opened"
    /\ UNCHANGED <<args, env, input_file, pos, command_list, job_name, os_arg,
                   os_filename, os_counter, cmd_i, job_flags, sbatch, stdout,
                   dirs, execd, status, task>>

\* open(_filename, 'x') raises FileExistsError: the next name is tried
OpenExists ==
    /\ pc = "open"
    /\ os_filename \in DOMAIN fs
    /\ os_counter' = os_counter + 1
    /\ os_filename' = NextFilename(os_arg, os_counter + 1)
    /\ UNCHANGED <<args, env, input_file, pos, command_list, job_name, fs, os_arg,
                   ofh_name, cmd_i, job_flags, sbatch, stdout, dirs, execd,
                   status, task, pc>>

\* open(_filename, 'x') raises another OSError (permissions, no such directory)
OpenFails ==
    /\ pc = "open"
    /\ os_filename \notin DOMAIN fs
    /\ Ends("OSError")
    /\ UNCHANGED <<args, env, input_file, pos, command_list, job_name, fs, os_arg,
                   os_filename, os_counter, ofh_name, cmd_i, job_flags, sbatch,
                   stdout, dirs, execd, task>>

OpenSesameTry == OpenCreates \/ OpenExists \/ OpenFails

-----------------------------------------------------------------------------
(* The body of the with statement: write_header, write_command, write_footer *)

\* print(..., file=ofh) of some lines
Written(lines) == fs' = [fs EXCEPT ![ofh_name] = @ \o lines]

\* int(args.environ.split()[-1]) raises before anything is printed
HeaderEnvironRaises ==
    /\ pc = "opened"
    /\ EnvironRaises(args)
    /\ Ends("ValueError")
    /\ UNCHANGED <<args, env, input_file, pos, command_list, job_name, fs, os_arg,
                   os_filename, os_counter, ofh_name, cmd_i, job_flags, sbatch,
                   stdout, dirs, execd, task>>

\* munge_hold_arg raises after the first directives were printed
HeaderHoldRaises ==
    /\ pc = "opened"
    /\ ~EnvironRaises(args)
    /\ TruthyStr(args.hold) /\ HoldRaises(args.hold)
    /\ Written(HeaderTop(args, ofh_name, Len(command_list)))
    /\ Ends("ValueError")
    /\ UNCHANGED <<args, env, input_file, pos, command_list, job_name, os_arg,
                   os_filename, os_counter, ofh_name, cmd_i, job_flags, sbatch,
                   stdout, dirs, execd, task>>

HeaderWritten ==
    /\ pc = "opened"
    /\ ~EnvironRaises(args)
    /\ ~(TruthyStr(args.hold) /\ HoldRaises(args.hold))
    /\ Written(HeaderTop(args, ofh_name, Len(command_list)) \o HeaderRest(args))
    /\ cmd_i' = 0
    /\ pc' = "commands"
    /\ UNCHANGED <<args, env, input_file, pos, command_list, job_name, os_arg,
                   os_filename, os_counter, ofh_name, job_flags, sbatch, stdout,
                   dirs, execd, status, task>>

WriteHeader == HeaderEnvironRaises \/ HeaderHoldRaises \/ HeaderWritten

\* one iteration of: for i, c in enumerate(command_list)
WriteCommand ==
    /\ pc = "commands"
    /\ cmd_i < Len(command_list)
    /\ Written(write_command(command_list[cmd_i + 1], cmd_i))
    /\ cmd_i' = cmd_i + 1
    /\ UNCHANGED <<args, env, input_file, pos, command_list, job_name, os_arg,
                   os_filename, os_counter, ofh_name, job_flags, sbatch, stdout,
                   dirs, execd, status, task, pc>>

\* write_footer, then the with statement closes the file
WriteFooter ==
    /\ pc = "commands"
    /\ cmd_i = Len(command_list)
    /\ Written(write_footer(args))
    /\ pc' = "flags"
    /\ UNCHANGED <<args, env, input_file, pos, command_list, job_name, os_arg,
                   os_filename, os_counter, ofh_name, cmd_i, job_flags, sbatch,
                   stdout, dirs, execd, status, task>>

-----------------------------------------------------------------------------
(* main, lines 117-137: the submission *)

\* the submitter main resolves: sbatch, or what find_sbatch_wait returns
Submitter == IF args.hard_sync THEN find_sbatch_wait(env) ELSE <<"s","b","a","t","c","h">>

\* find_sbatch_wait raises FileNotFoundError
SubmitterNotFound ==
    /\ pc = "flags"
    /\ Submitter = None
    /\ job_flags' = JobFlags(args)
    /\ Ends("FileNotFoundError")
    /\ UNCHANGED <<args, env, input_file, pos, command_list, job_name, fs, os_arg,
                   os_filename, os_counter, ofh_name, cmd_i, sbatch, stdout, dirs,
                   execd, task>>

SubmitterResolved ==
    /\ pc = "flags"
    /\ Submitter # None
    /\ job_flags' = JobFlags(args)
    /\ sbatch' = Submitter
    /\ pc' = "submit"
    /\ UNCHANGED <<args, env, input_file, pos, command_list, job_name, fs, os_arg,
                   os_filename, os_counter, ofh_name, cmd_i, stdout, dirs, execd,
                   status, task>>

BuildCommand == SubmitterNotFound \/ SubmitterResolved

\* faulty variant: the output directory is made all the same
DryRunCreatesDir ==
    /\ pc = "submit"
    /\ args.nosubmit
    /\ stdout' = Append(stdout, PreviewLine(args, sbatch, job_flags, ofh_name))
    /\ dirs' = dirs \cup {args.stdoutdir}
    /\ Ends("exit0")
    /\ UNCHANGED <<args, env, input_file, pos, command_list, job_name, fs, os_arg,
                   os_filename, os_counter, ofh_name, cmd_i, job_flags, sbatch,
                   execd, task>>

\* --nosubmit: the command is printed and main returns
DryRun ==
    /\ pc = "submit"
    /\ args.nosubmit
    /\ stdout' = Append(stdout, PreviewLine(args, sbatch, job_flags, ofh_name))
    /\ Ends("exit0")
    /\ UNCHANGED <<args, env, input_file, pos, command_list, job_name, fs, os_arg,
                   os_filename, os_counter, ofh_name, cmd_i, job_flags, sbatch,
                   dirs, execd, task>>

\* os.makedirs(path, exist_ok=True): the directory and its missing parents
MadeDirs(path) ==
    LET parts == split(path, "/")
    IN { join(<<"/">>, SubSeq(parts, 1, k)) : k \in 1..Len(parts) } \ {<<>>}

\* os.execlp(sbatch, sbatch, *job_flags, script_file) replaces the process
SubmitExecs ==
    /\ pc = "submit"
    /\ ~args.nosubmit
    /\ dirs' = dirs \cup MadeDirs(args.stdoutdir)
    /\ execd' = << <<sbatch>> \o job_flags \o <<ofh_name>> >>
    /\ Ends("replaced")
    /\ UNCHANGED <<args, env, input_file, pos, command_list, job_name, fs, os_arg,
                   os_filename, os_counter, ofh_name, cmd_i, job_flags, sbatch,
                   stdout, task>>

\* os.execlp cannot start the submitter: OSError propagates
SubmitFails ==
    /\ pc = "submit"
    /\ ~args.nosubmit
    /\ dirs' = dirs \cup MadeDirs(args.stdoutdir)
    /\ Ends("OSError")
    /\ UNCHANGED <<args, env, input_file, pos, command_list, job_name, fs, os_arg,
                   os_filename, os_counter, ofh_name, cmd_i, job_flags, sbatch,
                   stdout, execd, task>>

Submit == SubmitExecs \/ SubmitFails

-----------------------------------------------------------------------------
(* One task of the array job runs the compiled script *)

\* exit status of one command line: echo succeeds, anything else may fail
CommandStatus(body, st) == IF startswith(body, <<"e","c","h","o"," ">>) THEN 0 ELSE st

\* exit status of the --final block under set -e: the first failure, else 0
RECURSIVE BlockStatus(_, _)
BlockStatus(block, st) ==
    IF block = <<>> THEN 0
    ELSE IF CommandStatus(Head(block), st) # 0 THEN CommandStatus(Head(block), st)
    ELSE BlockStatus(Tail(block), st)

\* bash runs the script with the job's variables: the case statement picks the
\* first matching branch; set -e ends the script at the first failing command,
\* otherwise the script's status is that of its last command
RunTask ==
    /\ pc = "done"
    /\ status \in {"exit0", "replaced"}
    /\ task = <<>>
    /\ \E st \in {0, 1} :
        LET script == fs[ofh_name]
            sel == Selector(env)
            k == Matching(script, sel)
            b == Branches(script)[k]
            branch == CommandStatus(BranchBody(b), st)
        IN task' = << [selector |-> sel,
                       pattern |-> BranchPattern(b),
                       ran |-> BranchBody(b),
                       final_ran |-> branch = 0 /\ FinalBlock(script) # <<>>,
                       exit |-> IF branch # 0 THEN branch
                                ELSE BlockStatus(FinalBlock(script), st)] >>
    /\ UNCHANGED <<args, env, input_file, pos, command_list, job_name, fs, os_arg,
                   os_filename, os_counter, ofh_name, cmd_i, job_flags, sbatch,
                   stdout, dirs, execd, status, pc>>

-----------------------------------------------------------------------------
(* Specifications *)

Next ==
    \/ Start
    \/ ReadLine
    \/ EndOfInput
    \/ Interrupt
    \/ CheckEmpty
    \/ OpenSesameInit
    \/ OpenSesameTry
    \/ WriteHeader
    \/ WriteCommand
    \/ WriteFooter
    \/ BuildCommand
    \/ DryRun
    \/ Submit
    \/ RunTask

\* a whole run of msub
Spec == Init /\ [][Next]_vars

\* file names open_sesame may be called with
WriterNames == { <<"j","o","b",".","s","b","a","t","c","h">>, <<"j","o","b">>, <<"o","u","t",".","d","/","j","o","b">>, <<"v","1",".","2","/","a",".","b",".","s","h">> }

\* the name the k-th retry is expected to try: k goes before the last extension
\* segment of the base name, or at the end when the base name has no dot
LastDot(s) == CHOOSE k \in 1..Len(s) : s[k] = "." /\ \A j \in (k + 1)..Len(s) : s[j] # "."
Numbered(name, k) ==
    IF k = 0 THEN name
    ELSE IF contains(basename(name), ".")
    THEN SubSeq(name, 1, LastDot(name)) \o IntToStr(k)
             \o SubSeq(name, LastDot(name), Len(name))
    ELSE name \o <<".">> \o IntToStr(k)

\* open_sesame called on its own, with any of the names and any of the
\* candidate files already there
InitWriter ==
    /\ args = DefaultArgs
    /\ env = DefaultEnv
    /\ input_file = <<>>
    /\ pos = 0
    /\ command_list = <<>>
    /\ job_name = None
    /\ os_arg \in WriterNames
    /\ os_filename = os_arg
    /\ os_counter = 0
    /\ \E S \in SUBSET { Numbered(os_arg, k) : k \in 0..MaxCounter } :
           fs = [n \in S |-> OldContent]
    /\ ofh_name = None
    /\ cmd_i = 0
    /\ job_flags = <<>>
    /\ sbatch = None
    /\ stdout = <<>>
    /\ dirs = {}
    /\ execd = <<>>
    /\ status = "running"
    /\ task = <<>>
    /\ pc = "open"

NextWriter == OpenSesameTry

SpecWriter == InitWriter /\ [][NextWriter]_vars

-----------------------------------------------------------------------------
(* What the properties read off a state *)

\* the script file of the run
Script == fs[ofh_name]

\* write_header has returned
HeaderDone == pc \in {"commands", "flags", "submit"} \/ job_flags # <<>>

\* the with statement has been left normally: the script is complete
ScriptDone == pc \in {"flags", "submit"} \/ job_flags # <<>>

\* the value of the directive '#SBATCH <flag> <value> ...' of the script
Directive(flag) ==
    LET k == CHOOSE j \in 1..Len(Script) :
                 startswith(Script[j], <<"#","S","B","A","T","C","H"," ">> \o flag \o <<" ">>)
    IN splitws(Script[k])[3]

\* the statuses with which the run ends abnormally
Failed == {"exit1", "interrupted", "OSError", "ValueError", "FileNotFoundError"}

\* input line k, stripped
Stripped(k) == strip(input_file[k])

\* a directive of SLURM or of SGE, as the input format describes it
LooksNative(l) ==
    \E p \in { <<"#","S","B","A","T","C","H"," ">>, <<"#","$"," ","-">> } : Len(l) >= Len(p) /\ SubSeq(l, 1, Len(p)) = p

\* index of the first lone '.' line, one past the end when there is none
FirstDot ==
    LET dots == {k \in 1..Len(input_file) : Stripped(k) = <<".">>}
    IN IF dots = {} THEN Len(input_file) + 1 ELSE CHOOSE k \in dots : \A j \in dots : k <= j

\* the lines that are directives
NativeLines == {k \in 1..Len(input_file) : LooksNative(Stripped(k))}

\* the commands the input holds: before the first '.', not blank, not a comment
ExpectedCommands ==
    SelectSeq([k \in 1..(FirstDot - 1) |-> Stripped(k)],
              LAMBDA l : l # <<>> /\ Head(l) # "#")

-----------------------------------------------------------------------------
(* C1 *)

\* the lines of the script after 'case ... in', up to the default branch
Body ==
    LET from == FirstLine(Script, <<"c","a","s","e"," ","$","{","S","L","U","R","M","_","A","R","R","A","Y","_","T","A","S","K","_","I","D",":","-","$","T","A","S","K","}"," ","i","n">>)
        to == CHOOSE k \in 1..Len(Script) : startswith(Script[k], <<"*",")">>)
    IN SubSeq(Script, from + 1, to - 1)

\* C1: the body of a complete script holds exactly one branch per command, in
\* input order: branch k (from 0) is the line 'k) <command k>' followed by ';;',
\* and nothing else stands between 'case' and the default branch.
C1_OneBranchPerCommand ==
    ScriptDone =>
        /\ Len(Body) = 2 * Len(command_list)
        /\ \A k \in 1..Len(command_list) :
            /\ Body[2 * k - 1] = IntToStr(k - 1) \o <<")"," ">> \o command_list[k]
            /\ Body[2 * k] = <<";",";">>

C1_Witness == ScriptDone /\ Len(command_list) >= 3

-----------------------------------------------------------------------------
(* C2 *)

\* the selector values that name a task
TaskIndices == { IntToStr(k) : k \in 0..(Len(command_list) - 1) }

\* C2: a task whose selector is no task index runs the default branch, which
\* reports the value and makes the script exit non-zero, and no task body runs.
C2_DefaultBranchFails ==
    (task # <<>> /\ task[1].selector \notin TaskIndices) =>
        /\ task[1].pattern = <<"*">>
        /\ startswith(task[1].ran, <<"e","c","h","o"," ","\"","U","n","e","x","p","e","c","t","e","d"," ","S","L","U","R","M","_","A","R","R","A","Y","_","T","A","S","K","_","I","D","=">>)
        /\ task[1].exit # 0

-----------------------------------------------------------------------------
(* C3 *)

\* what the run looks like when it is rejected: nothing was opened, the run is
\* still reading or has ended abnormally
Rejected ==
    /\ ofh_name = None
    /\ os_filename = None
    /\ pc \in {"start", "read", "done"}
    /\ pc = "done" => status \in Failed

\* C3, as stated: with a directive line anywhere in the input, also after a
\* lone '.' line, no script file is ever created and the run never ends
\* successfully.
C3_AnyDirectiveRejected ==
    NativeLines # {} => (ofh_name = None /\ status \notin {"exit0", "replaced"})

\* C3, amended: a directive line that precedes the first lone '.' line aborts
\* the run with a non-zero exit and no script file; once the loop has read that
\* line the run has ended with exit status 1.  Directive lines after the first
\* lone '.' line are never read.
C3_DirectiveBeforeDotRejected ==
    \A k \in NativeLines :
        k < FirstDot =>
            /\ Rejected
            /\ pos >= k => (pc = "done" /\ status = "exit1")

C3_Witness ==
    /\ pc = "done" /\ status = "exit1"
    /\ command_list # <<>>
    /\ pos \in NativeLines /\ pos < FirstDot

-----------------------------------------------------------------------------
(* C4 *)

\* C4: once the loop has ended without abort, command_list is the stripped
\* lines before the first lone '.' that are neither blank nor comments, in
\* order; and when that list is empty nothing is ever opened and the run ends
\* abnormally.
C4_CommandsBeforeDot ==
    /\ pc \notin {"start", "read", "done"} => command_list = ExpectedCommands
    /\ ExpectedCommands = <<>> =>
           /\ ofh_name = None /\ os_filename = None
           /\ pc \in {"start", "read", "check_empty", "done"}
           /\ pc = "done" => status \in Failed

C4_Witness ==
    /\ pc = "call_open"
    /\ FirstDot < Len(input_file)
    /\ \E k \in (FirstDot + 1)..Len(input_file) :
           Stripped(k) # <<>> /\ Head(Stripped(k)) \notin {"#", "."}
    /\ command_list # <<>>

-----------------------------------------------------------------------------
(* C5 *)

\* C5: open_sesame tries filename, then filename with 1, 2, 3, ... put before
\* the last extension segment (appended when the base name has no dot); what
\* it creates is the first of these that did not exist; no existing file is
\* changed or removed; an error other than 'file exists' ends the loop with
\* nothing created.
C5_FirstFreeName ==
    [][ /\ \A n \in DOMAIN fs : n \in DOMAIN fs' /\ fs'[n] = fs[n]
        /\ os_filename' = Numbered(os_arg, os_counter')
        /\ ofh_name' # ofh_name =>
               /\ ofh_name' = Numbered(os_arg, os_counter)
               /\ ofh_name' \notin DOMAIN fs
               /\ fs'[ofh_name'] = <<>>
               /\ \A j \in 0..(os_counter - 1) : Numbered(os_arg, j) \in DOMAIN fs
        /\ status' = "OSError" => (fs' = fs /\ ofh_name' = None /\ pc' = "done")
      ]_vars

C5_Witness ==
    /\ pc = "opened"
    /\ ofh_name = <<"j","o","b",".","2",".","s","b","a","t","c","h">>
    /\ { <<"j","o","b",".","s","b","a","t","c","h">>, <<"j","o","b",".","1",".","s","b","a","t","c","h">> } \subseteq DOMAIN fs
    /\ fs[<<"j","o","b",".","s","b","a","t","c","h">>] = OldContent
    /\ fs[<<"j","o","b",".","1",".","s","b","a","t","c","h">>] = OldContent

-----------------------------------------------------------------------------
(* C6 *)

\* the command line the dry run is to print
ExpectedPreview ==
    <<"m","k","d","i","r"," ","-","p"," ">> \o args.stdoutdir \o <<" ",";"," ">> \o sbatch
        \o <<" ","-","p"," ">> \o args.queue
        \o <<" ","-","-","n","i","c","e","=">> \o IntToStr(args.priority)
        \o (IF args.sync THEN <<" ","-","-","w","a","i","t">> ELSE <<>>)
        \o <<" ">> \o ofh_name

\* C6: with --nosubmit no directory is created and nothing is executed; the
\* run that reaches the launcher prints exactly one line, the command, and
\* returns; the submitter in it is sbatch unless hard sync was requested.
C6_DryRunPreviewOnly ==
    args.nosubmit =>
        /\ dirs = {}
        /\ execd = <<>>
        /\ status # "replaced"
        /\ IF status = "exit0"
           THEN /\ stdout = <<ExpectedPreview>>
                /\ ~args.hard_sync => sbatch = <<"s","b","a","t","c","h">>
           ELSE stdout = <<>>

C6_Witness ==
    /\ args.nosubmit /\ args.sync /\ args.hard_sync
    /\ status = "exit0"
    /\ args.stdoutdir = <<"l","o","g","s","/","o","u","t">>

-----------------------------------------------------------------------------
(* C7 *)

\* C7: without an explicit memory value the memory directive is 6144 times the
\* core count of the cores directive of the same script.
C7_MemoryFollowsCores ==
    (HeaderDone /\ args.mem = NoInt) =>
        StrToInt(Directive(<<"-","-","m","e","m">>)) = 6144 * StrToInt(Directive(<<"-","c">>))

-----------------------------------------------------------------------------
(* C8 *)

\* the range 0-(n-1) of n tasks
ExpectedRange == <<"0","-">> \o IntToStr(Len(command_list) - 1)

\* C8, as stated: the array directive is 0-(n-1), followed by %L whenever a
\* limit L was given, whatever the integer.
C8_SuffixForEveryLimit ==
    HeaderDone =>
        Directive(<<"-","a">>) =
            ExpectedRange \o (IF args.max_running_task # NoInt
                              THEN <<"%">> \o IntToStr(args.max_running_task[1])
                              ELSE <<>>)

\* C8, amended: the array directive is 0-(n-1), followed by %L when a limit L
\* other than 0 was given; with no limit, or a limit of 0, there is no suffix.
C8_SuffixForNonZeroLimit ==
    HeaderDone =>
        Directive(<<"-","a">>) =
            ExpectedRange \o (IF args.max_running_task \notin {NoInt, <<0>>}
                              THEN <<"%">> \o IntToStr(args.max_running_task[1])
                              ELSE <<>>)

C8_Witness ==
    /\ HeaderDone
    /\ Len(command_list) >= 3
    /\ args.max_running_task = <<12>>

-----------------------------------------------------------------------------
(* C9 *)

\* hard sync was requested and the submitter has been looked for
Looked == args.hard_sync /\ job_flags # <<>>

\* FileNotFoundError is raised exactly when none of the three places has it
NotFoundIffNowhere ==
    (status = "FileNotFoundError") <=>
        (~env.on_path /\ ~env.in_argv0_dir /\ ~env.in_real_dir)

\* C9, as stated: search path first, then beside the resolved real location of
\* the program, then beside its literal invocation path.
C9_RealLocationSecond ==
    Looked =>
        /\ NotFoundIffNowhere
        /\ status # "FileNotFoundError" =>
               sbatch = IF env.on_path THEN <<"s","b","a","t","c","h","_","w","a","i","t",".","s","h">>
                        ELSE IF env.in_real_dir THEN env.real_dir \o <<"/","s","b","a","t","c","h","_","w","a","i","t",".","s","h">>
                        ELSE env.argv0_dir \o <<"/","s","b","a","t","c","h","_","w","a","i","t",".","s","h">>

\* C9, amended: search path first, then beside the literal (possibly
\* symlinked) invocation path of the program, then beside its resolved real
\* location; not found only when all three fail.
C9_InvocationPathSecond ==
    Looked =>
        /\ NotFoundIffNowhere
        /\ status # "FileNotFoundError" =>
               sbatch = IF env.on_path THEN <<"s","b","a","t","c","h","_","w","a","i","t",".","s","h">>
                        ELSE IF env.in_argv0_dir THEN env.argv0_dir \o <<"/","s","b","a","t","c","h","_","w","a","i","t",".","s","h">>
                        ELSE env.real_dir \o <<"/","s","b","a","t","c","h","_","w","a","i","t",".","s","h">>

C9_Witness ==
    /\ Looked
    /\ ~env.on_path /\ env.in_argv0_dir /\ env.in_real_dir
    /\ env.argv0_dir # env.real_dir
    /\ pc = "submit"

-----------------------------------------------------------------------------
(* C10 *)

\* the two output directives built on a name
OutputDirectives(name) ==
    /\ Directive(<<"-","o">>) = args.stdoutdir \o <<"/">> \o name \o <<".","%","A",".","%","a",".","o","u","t">>
    /\ Directive(<<"-","e">>) = args.stdoutdir \o <<"/">> \o name \o <<".","%","A",".","%","a",".","e","r","r">>

\* C10, as stated: the output directives carry the job name of the run, also
\* when the script file got a disambiguated name.
C10_OutputsNamedAfterJob == HeaderDone => OutputDirectives(job_name)

\* C10, amended: the output directives carry the base name of the script file
\* actually written, less its .sbatch extension: the base name of the job
\* name, followed by .<counter> when the writer had to disambiguate.
C10_OutputsNamedAfterScript ==
    HeaderDone =>
        OutputDirectives(basename(job_name)
                           \o (IF os_counter = 0 THEN <<>>
                               ELSE <<".">> \o IntToStr(os_counter)))

C10_Witness ==
    /\ HeaderDone
    /\ os_counter >= 2
    /\ job_name = <<"a",".","b">>

====
